---- MODULE Spec2Model ----
(***************************************************************************)
(* Customer health scoring service: the events table, the five factor      *)
(* calculators, the composite scorer and the HTTP handlers around them.    *)
(*                                                                         *)
(* Numbers.  Python floats are held as fixed-point integers in units of    *)
(* 1/Fx; a value the code rounds to one decimal (round(x, 1)) is held in   *)
(* tenths, so a score of 32.3 is the integer 323.  Weights are held in     *)
(* hundredths (0.25 is 25).  Timestamps are minutes since 2024-08-01       *)
(* 00:00, so DATE(ts) is ts \div MinutesPerDay.                            *)
(* Rounding is to the nearest, ties to even, on the exact decimal value;   *)
(* a binary float that lies a hair off an exact tie (122.55) may round the *)
(* other way, so the table contents used here keep clear of ties.          *)
(*                                                                         *)
(* Metadata.  event_metadata is a JSONB object; the queries read it with   *)
(* ->>, which yields text or NULL.  A metadata object is a function from   *)
(* the keys it carries to text, a missing key reads as NULL, and the casts *)
(* (::int, ::float, ::date) parse the text and fail on text that is not a  *)
(* literal of the type.                                                    *)
(***************************************************************************)
EXTENDS Integers, Sequences, FiniteSets, TLC

VARIABLES
    events,     \* the events table, in insertion order
    env,        \* the process environment: the five WEIGHT_* variables
    now,        \* the wall clock, datetime.now()
    response    \* the response to the last request

vars == <<events, env, now, response>>

(***************************************************************************)
(* Bounds of the model.                                                    *)
(***************************************************************************)
MaxPosts == 2      \* events a run adds to the seeded table
MaxTicks == 1      \* clock ticks of a run

(***************************************************************************)
(* Arithmetic.                                                             *)
(***************************************************************************)
Fx == 10 * 1000                 \* fixed-point units per 1.0
MinutesPerDay == 24 * 60

Min(a, b) == IF a <= b THEN a ELSE b
Max(a, b) == IF a >= b THEN a ELSE b

\* a / b rounded to the nearest integer, ties to the even one (b > 0)
RoundDiv(a, b) ==
    LET q == a \div b
        r == a % b
    IN  IF 2 * r < b THEN q
        ELSE IF 2 * r > b THEN q + 1
        ELSE IF q % 2 = 0 THEN q ELSE q + 1

\* round(x, 1) of a fixed-point x, in tenths
Round1(x) == RoundDiv(x, Fx \div 10)

\* a tenths value as fixed point
OfTenths(t) == t * (Fx \div 10)

RECURSIVE SqrtSearch(_, _, _)
SqrtSearch(x, lo, hi) ==
    IF lo >= hi THEN lo
    ELSE LET mid == (lo + hi + 1) \div 2
         IN  IF mid * mid <= x THEN SqrtSearch(x, mid, hi)
             ELSE SqrtSearch(x, lo, mid - 1)

\* floor(sqrt(x)) for 0 <= x < 2^31
ISqrt(x) == SqrtSearch(x, 0, 46340)

RECURSIVE SumOver(_, _)
SumOver(S, f) ==
    IF S = {} THEN 0
    ELSE LET i == CHOOSE j \in S : TRUE
         IN  f[i] + SumOver(S \ {i}, f)

(***************************************************************************)
(* Text and its casts.                                                     *)
(***************************************************************************)
NULL == "<NULL>"

IntLiterals ==
    { <<"-10", -10>>, <<"0", 0>>, <<"1", 1>>, <<"2", 2>>, <<"3", 3>>,
      <<"4", 4>>, <<"5", 5>>, <<"15", 15>>, <<"50", 50>>, <<"100", 100>>,
      <<"120", 120>>, <<"200", 200>>, <<"500", 500>> }

DateLiterals == { "2024-09-10", "2024-09-20", "2024-10-05" }

IsIntText(s) == \E p \in IntLiterals : p[1] = s
IntOfText(s) == (CHOOSE p \in IntLiterals : p[1] = s)[2]

\* event_metadata ->> key
Field(e, key) ==
    IF key \in DOMAIN e.event_metadata THEN e.event_metadata[key] ELSE NULL

\* (event_metadata ->> key)::int raises on text that is no integer literal
IntCastFails(e, key) == Field(e, key) # NULL /\ ~IsIntText(Field(e, key))
DateCastFails(e, key) == Field(e, key) # NULL /\ Field(e, key) \notin DateLiterals

\* DATE(ts)
DateOf(ts) == ts \div MinutesPerDay

\* datetime(2024, 8, 1) + day days, hh:mm
At(day, hh, mm) == day * MinutesPerDay + hh * 60 + mm

(***************************************************************************)
(* The tables.                                                             *)
(***************************************************************************)
Customers ==
    { [id |-> "c1", name |-> "Acme", segment |-> "enterprise"],
      [id |-> "c2", name |-> "Bolt", segment |-> "startup"] }

CustomerIds == { c.id : c \in Customers }

CustomerById(id) == CHOOSE c \in Customers : c.id = id

\* the rows of db's events table a query's WHERE clause selects
Rows(db, customer_id, types, lo, hi) ==
    { i \in 1..Len(db) :
        /\ db[i].customer_id = customer_id
        /\ db[i].event_type \in types
        /\ db[i].ts >= lo
        /\ db[i].ts <= hi }

(***************************************************************************)
(* get_period_dates                                                        *)
(***************************************************************************)
PeriodEnd == At(60, 23, 59)     \* datetime(2024, 9, 30, 23, 59, 0)

\* variant: the period ends at the clock's time (the "in production" comment)
get_period_dates_rolling(days) ==
    [start |-> now - days * MinutesPerDay, end |-> now]

get_period_dates(days) ==
    [start |-> PeriodEnd - days * MinutesPerDay, end |-> PeriodEnd]

(***************************************************************************)
(* 1. calc_login_frequency_score                                           *)
(***************************************************************************)
calc_login_frequency_score(db, customer_id, period_start, period_end) ==
    LET rows == Rows(db, customer_id, {"user_login"}, period_start, period_end)
        days_logged_in == Cardinality({ DateOf(db[i].ts) : i \in rows })
        total_days_in_period == (DateOf(period_end) - DateOf(period_start)) + 1
        login_frequency_percentage ==
            IF total_days_in_period = 0 THEN 0
            ELSE RoundDiv(days_logged_in * 100 * Fx, total_days_in_period)
        login_frequency_score == Min(100 * Fx, login_frequency_percentage)
    IN  [ failed |-> FALSE,
          score |-> Round1(login_frequency_score),
          days_logged_in |-> days_logged_in,
          total_days_in_period |-> total_days_in_period,
          login_frequency_percentage |-> Round1(login_frequency_percentage) ]

(***************************************************************************)
(* 2. calc_feature_adoption_score                                          *)
(***************************************************************************)
total_features == 8

\* COUNT(DISTINCT CASE WHEN feature_onboarded AND completion_percentage = 100
\*                     THEN feature_name END)
features_onboarded_count(db, rows) ==
    Cardinality({ Field(db[i], "feature_name") :
                    i \in { j \in rows :
                              /\ db[j].event_type = "feature_onboarded"
                              /\ IsIntText(Field(db[j], "completion_percentage"))
                              /\ IntOfText(Field(db[j], "completion_percentage")) = 100 } }
                \ {NULL})

\* variant: COUNT without DISTINCT
features_used_count_all(db, rows) ==
    Cardinality({ i \in rows : /\ db[i].event_type = "feature_used"
                               /\ Field(db[i], "feature_name") # NULL })

\* COUNT(DISTINCT CASE WHEN feature_used THEN feature_name END)
features_used_count(db, rows) ==
    Cardinality({ Field(db[i], "feature_name") :
                    i \in { j \in rows : db[j].event_type = "feature_used" } }
                \ {NULL})

\* COUNT(CASE WHEN feature_used THEN 1 END)
total_feature_usage_count(db, rows) ==
    Cardinality({ i \in rows : db[i].event_type = "feature_used" })

calc_feature_adoption_score(db, customer_id, period_start, period_end) ==
    LET rows == Rows(db, customer_id, {"feature_onboarded", "feature_used"},
                     period_start, period_end)
        raises == \E i \in rows :
                     /\ db[i].event_type = "feature_onboarded"
                     /\ IntCastFails(db[i], "completion_percentage")
        features_onboarded == features_onboarded_count(db, rows)
        features_used == features_used_count(db, rows)
        total_feature_usage == total_feature_usage_count(db, rows)
        onboarding_score == RoundDiv(features_onboarded * 30 * Fx, total_features)
        diversity_score ==
            RoundDiv(Min(total_features, features_used) * 50 * Fx, total_features)
        engagement_score ==
            RoundDiv(Min(100 * Fx, RoundDiv(total_feature_usage * Fx, 10)) * 2, 10)
        feature_adoption_score == onboarding_score + diversity_score + engagement_score
    IN  IF raises THEN [failed |-> TRUE]
        ELSE [ failed |-> FALSE,
               score |-> Round1(feature_adoption_score),
               features_onboarded |-> features_onboarded,
               features_used |-> features_used,
               total_feature_usage |-> total_feature_usage,
               onboarding_score |-> Round1(onboarding_score),
               diversity_score |-> Round1(diversity_score),
               engagement_score |-> Round1(engagement_score) ]

(***************************************************************************)
(* 3. calc_support_ticket_score                                            *)
(***************************************************************************)
\* the open_tickets_query: ticket ids (NULL is one group) created more often
\* than resolved
currently_open_count(db, rows) ==
    LET ids == { Field(db[i], "ticket_id") : i \in rows }
        created(t) == Cardinality({ i \in rows :
                          /\ Field(db[i], "ticket_id") = t
                          /\ db[i].event_type = "support_ticket_created" })
        resolved(t) == Cardinality({ i \in rows :
                          /\ Field(db[i], "ticket_id") = t
                          /\ db[i].event_type = "support_ticket_resolved" })
    IN  Cardinality({ t \in ids : created(t) > resolved(t) })

\* max(0, 100.0 - count * per), fixed point
penalty_score(count, per) == Max(0, 100 * Fx - count * per * Fx)

\* variant: the sign of the escalation term flipped
escalation_penalty_score_flipped(tickets_escalated) ==
    Max(0, 100 * Fx + tickets_escalated * 20 * Fx)

escalation_penalty_score(tickets_escalated) == penalty_score(tickets_escalated, 20)

resolution_rate_score_of(tickets_resolved, tickets_created) ==
    IF tickets_created > 0
    THEN RoundDiv(tickets_resolved * 100 * Fx, tickets_created)
    ELSE 100 * Fx

\* variant: no satisfaction data scored as full satisfaction
satisfaction_score_of_full(avg_satisfaction) ==
    IF avg_satisfaction # <<>> /\ avg_satisfaction[1] # 0
    THEN avg_satisfaction[1] * 20 ELSE 100 * Fx

\* avg_satisfaction * 20, or 80.0 when avg_satisfaction is None or 0; an
\* optional number is <<>> (None) or <<x>>
satisfaction_score_of(avg_satisfaction) ==
    IF avg_satisfaction # <<>> /\ avg_satisfaction[1] # 0
    THEN avg_satisfaction[1] * 20 ELSE 80 * Fx

support_score_of(tickets_created, tickets_resolved, tickets_escalated, high_priority_tickets, currently_open_tickets, avg_satisfaction) ==
    penalty_score(tickets_created, 5) * 30
    + resolution_rate_score_of(tickets_resolved, tickets_created) * 20
    + escalation_penalty_score(tickets_escalated) * 20
    + penalty_score(high_priority_tickets, 15) * 15
    + penalty_score(currently_open_tickets, 10) * 10
    + satisfaction_score_of(avg_satisfaction) * 5

calc_support_ticket_score(db, customer_id, period_start, period_end) ==
    LET rows == Rows(db, customer_id,
                     {"support_ticket_created", "support_ticket_resolved"},
                     period_start, period_end)
        created == { i \in rows : db[i].event_type = "support_ticket_created" }
        resolved == { i \in rows : db[i].event_type = "support_ticket_resolved" }
        rated == { i \in resolved : Field(db[i], "satisfaction_score") # NULL }
        raises == \E i \in rated : ~IsIntText(Field(db[i], "satisfaction_score"))
        tickets_created == Cardinality(created)
        tickets_resolved == Cardinality(resolved)
        tickets_escalated ==
            Cardinality({ i \in resolved : Field(db[i], "resolution_type") = "escalated" })
        high_priority_tickets ==
            Cardinality({ i \in created : Field(db[i], "priority") \in {"high", "critical"} })
        avg_satisfaction ==
            IF rated = {} THEN <<>>
            ELSE << RoundDiv(SumOver(rated,
                      [i \in rated |-> IntOfText(Field(db[i], "satisfaction_score"))]) * Fx,
                      Cardinality(rated)) >>
        currently_open_tickets == currently_open_count(db, rows)
        support_score ==
            support_score_of(tickets_created, tickets_resolved, tickets_escalated,
                             high_priority_tickets, currently_open_tickets,
                             avg_satisfaction)
    IN  IF raises THEN [failed |-> TRUE]
        ELSE [ failed |-> FALSE,
               score |-> RoundDiv(support_score, 100 * (Fx \div 10)),
               tickets_created |-> tickets_created,
               tickets_resolved |-> tickets_resolved,
               tickets_escalated |-> tickets_escalated,
               high_priority_tickets |-> high_priority_tickets,
               currently_open_tickets |-> currently_open_tickets,
               avg_satisfaction |->
                   IF avg_satisfaction # <<>> /\ avg_satisfaction[1] # 0
                   THEN << Round1(avg_satisfaction[1]) >> ELSE <<>>,
               resolution_rate |->
                   IF tickets_created > 0
                   THEN Round1(RoundDiv(tickets_resolved * 100 * Fx, tickets_created))
                   ELSE 1000 ]

(***************************************************************************)
(* 4. calc_payment_timeliness_score                                        *)
(***************************************************************************)
\* inv.invoice_id = pay.invoice_id (NULL equals nothing)
SameInvoice(db, i, j) ==
    /\ Field(db[i], "invoice_id") # NULL
    /\ Field(db[i], "invoice_id") = Field(db[j], "invoice_id")

\* the rows of payment_metrics: inv LEFT JOIN pay, as <<invoice row, payment
\* row>> with payment row 0 where no payment matches
payment_metrics(db, customer_id, period_start, period_end) ==
    LET inv == Rows(db, customer_id, {"invoice_generated"}, period_start, period_end)
        pay == { j \in 1..Len(db) :
                   /\ db[j].customer_id = customer_id
                   /\ db[j].event_type = "payment_received" }
    IN  { r \in inv \X pay : SameInvoice(db, r[1], r[2]) }
        \cup { <<i, 0>> : i \in { k \in inv : \A j \in pay : ~SameInvoice(db, k, j) } }

\* COALESCE(fail.failure_count, 0) of a payment_metrics row
failure_count(db, customer_id, r) ==
    Cardinality({ j \in 1..Len(db) :
                    /\ db[j].customer_id = customer_id
                    /\ db[j].event_type = "payment_failed"
                    /\ SameInvoice(db, r[1], j) })

\* pay.days_early_late of a payment_metrics row, <<>> when NULL
days_early_late(db, r) ==
    IF r[2] = 0 \/ Field(db[r[2]], "days_early_late") = NULL THEN <<>>
    ELSE << IntOfText(Field(db[r[2]], "days_early_late")) >>

\* the CASE that classifies a payment_metrics row; NULL when no branch applies
payment_status(db, r) ==
    IF r[2] = 0 \/ Field(db[r[2]], "payment_date") = NULL THEN "unpaid"
    ELSE IF days_early_late(db, r) = <<>> THEN NULL
    ELSE IF days_early_late(db, r)[1] <= 0 THEN "on_time_or_early"
    ELSE IF days_early_late(db, r)[1] <= 10 THEN "late_acceptable"
    ELSE "late_concerning"

\* COUNT(CASE WHEN payment_status = status THEN 1 END)
status_count(db, pm, status) ==
    Cardinality({ r \in pm : payment_status(db, r) = status })

calc_payment_timeliness_score(db, customer_id, period_start, period_end) ==
    LET pm == payment_metrics(db, customer_id, period_start, period_end)
        with(status) == status_count(db, pm, status)
        total_invoices == Cardinality(pm)
        unpaid_invoices == with("unpaid")
        on_time_payments == with("on_time_or_early")
        late_acceptable == with("late_acceptable")
        late_concerning == with("late_concerning")
        total_payment_failures ==
            SumOver(pm, [r \in pm |-> failure_count(db, customer_id, r)])
        delayed == { r \in pm : days_early_late(db, r) # <<>> }
        \* AVG(days_early_late), or 0 when NULL or 0
        avg_payment_delay ==
            IF delayed = {} THEN 0
            ELSE RoundDiv(SumOver(delayed,
                     [r \in delayed |-> days_early_late(db, r)[1]]) * Fx,
                     Cardinality(delayed))
        unpaid_amount ==
            LET owed == { r \in pm : /\ payment_status(db, r) = "unpaid"
                                     /\ Field(db[r[1]], "amount_usd") # NULL }
            IN  SumOver(owed, [r \in owed |-> IntOfText(Field(db[r[1]], "amount_usd"))])
        on_time_rate_score ==
            IF total_invoices > 0
            THEN RoundDiv(on_time_payments * 100 * Fx, total_invoices)
            ELSE 100 * Fx
        unpaid_penalty == penalty_score(unpaid_invoices, 25)
        late_penalty == penalty_score(late_concerning, 15)
        failure_penalty == penalty_score(total_payment_failures, 10)
        delay_penalty == Max(0, 100 * Fx - avg_payment_delay * 2)
        payment_score ==
            on_time_rate_score * 40 + unpaid_penalty * 30 + late_penalty * 15
            + failure_penalty * 10 + delay_penalty * 5
    IN  [ failed |-> FALSE,
          score |-> RoundDiv(payment_score, 100 * (Fx \div 10)),
          total_invoices |-> total_invoices,
          unpaid_invoices |-> unpaid_invoices,
          on_time_payments |-> on_time_payments,
          late_concerning |-> late_concerning,
          total_payment_failures |-> total_payment_failures,
          avg_payment_delay |-> Round1(avg_payment_delay),
          unpaid_amount |-> unpaid_amount,
          on_time_rate |->
              IF total_invoices > 0
              THEN Round1(RoundDiv(on_time_payments * 100 * Fx, total_invoices))
              ELSE 1000 ]

(***************************************************************************)
(* 5. calc_api_usage_score                                                 *)
(***************************************************************************)
\* COUNT(api_call rows with response_code BETWEEN 200 AND 299)::float
\*   / NULLIF(COUNT(api_call rows), 0) * 100, <<>> when NULL
success_rate_of(db, calls) ==
    IF calls = {} THEN <<>>
    ELSE << RoundDiv(
              Cardinality({ i \in calls :
                  /\ IsIntText(Field(db[i], "response_code"))
                  /\ IntOfText(Field(db[i], "response_code")) >= 200
                  /\ IntOfText(Field(db[i], "response_code")) <= 299 }) * 100 * Fx,
              Cardinality(calls)) >>

\* result[3] if result[3] else 90
reliability_of(success_rate) ==
    IF success_rate # <<>> /\ success_rate[1] # 0 THEN success_rate[1] ELSE 90 * Fx

\* min(100, (total_api_calls ** 0.5) * 10) if total_api_calls > 0 else 0
volume_score_of(total_api_calls) ==
    IF total_api_calls <= 0 THEN 0
    ELSE IF total_api_calls >= 100 THEN 100 * Fx
    ELSE IF total_api_calls <= 21
         THEN Min(100 * Fx, ISqrt(total_api_calls * Fx * Fx) * 10)
         ELSE Min(100 * Fx, ISqrt(total_api_calls * Fx * 100) * 100)

\* 50 if previous_period_calls == 0
\* else min(100, ((total_api_calls / previous_period_calls - 1) * 100) + 50)
growth_score_of(total_api_calls, previous_period_calls) ==
    IF previous_period_calls = 0 THEN 50 * Fx
    ELSE Min(100 * Fx,
             RoundDiv(total_api_calls * 100 * Fx, previous_period_calls)
             - 100 * Fx + 50 * Fx)

\* the growth_query: api_call rows with previous_period_start <= ts < period_start
previous_period_calls_of(db, customer_id, period_start, period_end) ==
    LET previous_period_start == period_start - (period_end - period_start)
    IN  Cardinality(Rows(db, customer_id, {"api_call"},
                         previous_period_start, period_start - 1))

calc_api_usage_score(db, customer_id, period_start, period_end) ==
    LET rows == Rows(db, customer_id, {"api_call", "api_rate_limit_exceeded"},
                     period_start, period_end)
        calls == { i \in rows : db[i].event_type = "api_call" }
        raises == \E i \in calls : \/ IntCastFails(db[i], "response_code")
                                   \/ IntCastFails(db[i], "response_time_ms")
        total_api_calls == Cardinality(calls)
        rate_limit_hits == Cardinality(rows \ calls)
        active_api_days == Cardinality({ DateOf(db[i].ts) : i \in rows })
        success_rate == reliability_of(success_rate_of(db, calls))
        timed == { i \in calls : Field(db[i], "response_time_ms") # NULL }
        avg_response_time ==
            IF timed = {} THEN 0
            ELSE RoundDiv(SumOver(timed,
                     [i \in timed |-> IntOfText(Field(db[i], "response_time_ms"))]) * Fx,
                     Cardinality(timed))
        unique_endpoints_used ==
            Cardinality({ Field(db[i], "endpoint") : i \in calls } \ {NULL})
        previous_period_calls ==
            previous_period_calls_of(db, customer_id, period_start, period_end)
        period_days == (DateOf(period_end) - DateOf(period_start)) + 1
        volume_score == volume_score_of(total_api_calls)
        consistency_score ==
            IF period_days > 0
            THEN Min(100 * Fx, RoundDiv(active_api_days * 100 * Fx, period_days))
            ELSE 0
        growth_score == growth_score_of(total_api_calls, previous_period_calls)
        reliability_score == success_rate
        diversity_score == Min(100 * Fx, unique_endpoints_used * 20 * Fx)
        engagement_bonus == Min(20 * Fx, rate_limit_hits * 2 * Fx)
        api_usage_score ==
            volume_score * 25 + consistency_score * 20 + growth_score * 20
            + reliability_score * 15 + diversity_score * 10 + engagement_bonus * 10
    IN  IF raises THEN [failed |-> TRUE]
        ELSE [ failed |-> FALSE,
               score |-> RoundDiv(api_usage_score, 100 * (Fx \div 10)),
               total_api_calls |-> total_api_calls,
               rate_limit_hits |-> rate_limit_hits,
               active_api_days |-> active_api_days,
               success_rate |-> Round1(success_rate),
               avg_response_time |-> Round1(avg_response_time),
               unique_endpoints_used |-> unique_endpoints_used,
               growth_rate |->
                   IF previous_period_calls > 0
                   THEN Round1(RoundDiv(total_api_calls * 100 * Fx,
                                        previous_period_calls) - 100 * Fx)
                   ELSE 1000 ]

(***************************************************************************)
(* calculate_customer_health_score                                         *)
(***************************************************************************)
\* text a WEIGHT_* variable can hold with float(text), in hundredths
WeightLiterals ==
    { <<"0.00", 0>>, <<"0.15", 15>>, <<"0.20", 20>>, <<"0.25", 25>>,
      <<"0.30", 30>>, <<"0.40", 40>>, <<"0.50", 50>>, <<"1.00", 100>> }

IsWeightText(s) == \E p \in WeightLiterals : p[1] = s
WeightOfText(s) == (CHOOSE p \in WeightLiterals : p[1] = s)[2]

\* os.getenv(name, default)
getenv(name, default) == IF name \in DOMAIN env THEN env[name] ELSE default

\* the text of the five weights, before float()
weight_texts ==
    [ login_frequency |-> getenv("WEIGHT_LOGIN_FREQUENCY", "0.20"),
      feature_adoption |-> getenv("WEIGHT_FEATURE_ADOPTION", "0.25"),
      support_tickets |-> getenv("WEIGHT_SUPPORT_TICKETS", "0.20"),
      payment_health |-> getenv("WEIGHT_PAYMENT_HEALTH", "0.20"),
      api_usage |-> getenv("WEIGHT_API_USAGE", "0.15") ]

FactorNames ==
    { "login_frequency", "feature_adoption", "support_tickets",
      "payment_health", "api_usage" }

\* the five calculators' results over the 30-day period
factor_data(db, customer_id) ==
    LET period == get_period_dates(30)
    IN  [ login_frequency |->
              calc_login_frequency_score(db, customer_id, period.start, period.end),
          feature_adoption |->
              calc_feature_adoption_score(db, customer_id, period.start, period.end),
          support_tickets |->
              calc_support_ticket_score(db, customer_id, period.start, period.end),
          payment_health |->
              calc_payment_timeliness_score(db, customer_id, period.start, period.end),
          api_usage |->
              calc_api_usage_score(db, customer_id, period.start, period.end) ]

\* weighted_score, in thousandths: scores in tenths times weights in hundredths
weighted_score_of(data, weights) ==
    data.login_frequency.score * weights.login_frequency
    + data.feature_adoption.score * weights.feature_adoption
    + data.support_tickets.score * weights.support_tickets
    + data.payment_health.score * weights.payment_health
    + data.api_usage.score * weights.api_usage

\* the health label of a weighted_score in thousandths
label_of(weighted_score) ==
    IF weighted_score >= 80 * 1000 THEN "Healthy"
    ELSE IF weighted_score >= 60 * 1000 THEN "At Risk"
    ELSE "Unhealthy"

\* the dict calculate_customer_health_score returns, from the calculators'
\* results and the parsed weights
health_result(data, weights, weighted_score) ==
    [ failed |-> FALSE,
      score |-> RoundDiv(weighted_score, 100),
      label |-> label_of(weighted_score),
      breakdown |->
        [ login_frequency |->
            [ score |-> data.login_frequency.score,
              weight |-> weights.login_frequency,
              days_logged_in |-> data.login_frequency.days_logged_in,
              total_days_in_period |-> data.login_frequency.total_days_in_period,
              login_frequency_percentage |->
                  data.login_frequency.login_frequency_percentage ],
          feature_adoption |->
            [ score |-> data.feature_adoption.score,
              weight |-> weights.feature_adoption,
              features_onboarded |-> data.feature_adoption.features_onboarded,
              features_used |-> data.feature_adoption.features_used,
              total_feature_usage |-> data.feature_adoption.total_feature_usage ],
          support_tickets |->
            [ score |-> data.support_tickets.score,
              weight |-> weights.support_tickets,
              tickets_created |-> data.support_tickets.tickets_created,
              tickets_resolved |-> data.support_tickets.tickets_resolved,
              currently_open_tickets |-> data.support_tickets.currently_open_tickets,
              resolution_rate |-> data.support_tickets.resolution_rate ],
          payment_health |->
            [ score |-> data.payment_health.score,
              weight |-> weights.payment_health,
              total_invoices |-> data.payment_health.total_invoices,
              unpaid_invoices |-> data.payment_health.unpaid_invoices,
              on_time_rate |-> data.payment_health.on_time_rate,
              unpaid_amount |-> data.payment_health.unpaid_amount ],
          api_usage |->
            [ score |-> data.api_usage.score,
              weight |-> weights.api_usage,
              total_api_calls |-> data.api_usage.total_api_calls,
              active_api_days |-> data.api_usage.active_api_days,
              success_rate |-> data.api_usage.success_rate,
              unique_endpoints_used |-> data.api_usage.unique_endpoints_used ] ],
      last_updated |-> now ]

\* an exception leaves the function: a calculator's query fails on a cast, or
\* float() fails on a weight
health_score_raises(data, texts) ==
    \/ \E f \in FactorNames : data[f].failed
    \/ \E f \in FactorNames : ~IsWeightText(texts[f])

weighted_result(data, weights) ==
    health_result(data, weights, weighted_score_of(data, weights))

health_score_of(data, texts) ==
    IF health_score_raises(data, texts) THEN [failed |-> TRUE]
    ELSE weighted_result(data, [f \in FactorNames |-> WeightOfText(texts[f])])

calculate_customer_health_score(db, customer) ==
    health_score_of(factor_data(db, customer.id), weight_texts)

(***************************************************************************)
(* The HTTP handlers (main.py).  A response is [op, id, status, body]: the  *)
(* handler, the id of the request's path, the status and the body; an      *)
(* exception that leaves a handler is answered 500.                        *)
(***************************************************************************)
NoBody == [detail |-> "Internal Server Error"]

\* one entry of customer_list
customer_data(customer, health_data) ==
    [ id |-> customer.id, name |-> customer.name, segment |-> customer.segment,
      score |-> health_data.score, label |-> health_data.label ]

\* the body of get_customers, given every customer's health_data
customer_list(health) ==
    IF \E id \in CustomerIds : health[id].failed
    THEN [op |-> "get_customers", id |-> "", status |-> 500, body |-> NoBody]
    ELSE [ op |-> "get_customers", id |-> "", status |-> 200,
           body |-> { customer_data(c, health[c.id]) : c \in Customers } ]

\* GET /api/customers
get_customers ==
    /\ response' = customer_list(
           [id \in CustomerIds |->
               calculate_customer_health_score(events, CustomerById(id))])
    /\ UNCHANGED <<events, env, now>>

\* the response of get_customer_health, given the customer's health_data
health_response(customer, health_data) ==
    IF health_data.failed
    THEN [ op |-> "get_customer_health", id |-> customer.id, status |-> 500,
           body |-> NoBody ]
    ELSE [ op |-> "get_customer_health", id |-> customer.id, status |-> 200,
           body |-> [ id |-> customer.id,
                      name |-> customer.name,
                      segment |-> customer.segment,
                      score |-> health_data.score,
                      label |-> health_data.label,
                      last_updated |-> health_data.last_updated,
                      breakdown |-> health_data.breakdown ] ]

\* GET /api/customers/{id}/health
get_customer_health(id) ==
    /\ response' =
         IF id \notin CustomerIds
         THEN [ op |-> "get_customer_health", id |-> id, status |-> 404,
                body |-> [detail |-> "Customer not found"] ]
         ELSE health_response(CustomerById(id),
                  calculate_customer_health_score(events, CustomerById(id)))
    /\ UNCHANGED <<events, env, now>>

\* text datetime.fromisoformat accepts, with the datetime it yields
IsoLiterals ==
    { <<"2024-08-10T10:00:00", At(9, 10, 0)>>,
      <<"2024-08-31T10:00:00", At(30, 10, 0)>>,
      <<"2024-08-31T23:59:00", At(30, 23, 59)>>,
      <<"2024-09-05T10:00:00", At(35, 10, 0)>>,
      <<"2024-09-05T18:00:00", At(35, 18, 0)>>,
      <<"2024-09-06T10:00:00", At(36, 10, 0)>>,
      <<"2024-09-07T10:00:00", At(37, 10, 0)>>,
      <<"2024-09-09T10:00:00", At(39, 10, 0)>>,
      <<"2024-09-10T10:00:00", At(40, 10, 0)>>,
      <<"2024-09-10T18:00:00", At(40, 18, 0)>> }

IsIsoText(s) == \E p \in IsoLiterals : p[1] = s
fromisoformat(s) == (CHOOSE p \in IsoLiterals : p[1] = s)[2]

\* variant: the insert written as an upsert on (customer, event type), which
\* overwrites the customer's earlier event of the type
create_customer_event_upsert(id, event_data) ==
    IF id \notin CustomerIds
    THEN /\ response' = [ op |-> "create_customer_event", id |-> id, status |-> 404,
                          body |-> [detail |-> "Customer not found"] ]
         /\ UNCHANGED <<events, env, now>>
    ELSE IF event_data.ts \notin {NULL, ""} /\ ~IsIsoText(event_data.ts)
    THEN /\ response' = [ op |-> "create_customer_event", id |-> id, status |-> 400,
                          body |-> [detail |-> "Invalid timestamp format. Use ISO format."] ]
         /\ UNCHANGED <<events, env, now>>
    ELSE LET event_timestamp ==
                 IF event_data.ts \in {NULL, ""} THEN now
                 ELSE fromisoformat(event_data.ts)
             same == { i \in 1..Len(events) :
                         /\ events[i].customer_id = id
                         /\ events[i].event_type = event_data.event_type }
             event == [ id |-> Len(events) + 1,
                        customer_id |-> id,
                        event_type |-> event_data.event_type,
                        ts |-> event_timestamp,
                        event_metadata |-> event_data.metadata ]
         IN  /\ events' = Append([i \in 1..Len(events) |->
                                     IF i \in same THEN [events[i] EXCEPT !.ts = event_timestamp]
                                     ELSE events[i]], event)
             /\ response' = [ op |-> "create_customer_event", id |-> id, status |-> 200,
                              body |-> event ]
             /\ UNCHANGED <<env, now>>

\* POST /api/customers/{id}/events; event_data.ts is text or NULL (None)
create_customer_event(id, event_data) ==
    IF id \notin CustomerIds
    THEN /\ response' = [ op |-> "create_customer_event", id |-> id, status |-> 404,
                          body |-> [detail |-> "Customer not found"] ]
         /\ UNCHANGED <<events, env, now>>
    ELSE IF event_data.ts \notin {NULL, ""} /\ ~IsIsoText(event_data.ts)
    THEN /\ response' = [ op |-> "create_customer_event", id |-> id, status |-> 400,
                          body |-> [detail |-> "Invalid timestamp format. Use ISO format."] ]
         /\ UNCHANGED <<events, env, now>>
    ELSE LET event_timestamp ==
                 IF event_data.ts \in {NULL, ""} THEN now
                 ELSE fromisoformat(event_data.ts)
             event == [ id |-> Len(events) + 1,
                        customer_id |-> id,
                        event_type |-> event_data.event_type,
                        ts |-> event_timestamp,
                        event_metadata |-> event_data.metadata ]
         IN  /\ events' = Append(events, event)
             /\ response' = [ op |-> "create_customer_event", id |-> id, status |-> 200,
                              body |-> event ]
             /\ UNCHANGED <<env, now>>

\* variant: ORDER BY ts, oldest first
RECURSIVE OrderByTsAsc(_, _)
OrderByTsAsc(db, S) ==
    IF S = {} THEN { <<>> }
    ELSE LET oldest == { i \in S : \A j \in S : db[i].ts <= db[j].ts }
         IN  UNION { { <<db[i]>> \o rest : rest \in OrderByTsAsc(db, S \ {i}) }
                     : i \in oldest }

\* the orders ORDER BY ts DESC can return the rows S in: rows of equal ts come in
\* any order
RECURSIVE OrderByTsDesc(_, _)
OrderByTsDesc(db, S) ==
    IF S = {} THEN { <<>> }
    ELSE LET newest == { i \in S : \A j \in S : db[i].ts >= db[j].ts }
         IN  UNION { { <<db[i]>> \o rest : rest \in OrderByTsDesc(db, S \ {i}) }
                     : i \in newest }

\* GET /api/customers/{id}/events
get_customer_events(id) ==
    IF id \notin CustomerIds
    THEN /\ response' = [ op |-> "get_customer_events", id |-> id, status |-> 404,
                          body |-> [detail |-> "Customer not found"] ]
         /\ UNCHANGED <<events, env, now>>
    ELSE /\ \E event_list \in
               OrderByTsDesc(events, { i \in 1..Len(events) : events[i].customer_id = id }) :
               response' = [ op |-> "get_customer_events", id |-> id, status |-> 200,
                             body |-> [ customer_id |-> id,
                                        customer_name |-> CustomerById(id).name,
                                        total_events |-> Len(event_list),
                                        events |-> event_list ] ]
         /\ UNCHANGED <<events, env, now>>

\* time passes
\* the clock when the run starts: 2024-10-05 10:00, after the analysis period
NowStart == At(65, 10, 0)

Tick ==
    /\ now < NowStart + MaxTicks
    /\ now' = now + 1
    /\ UNCHANGED <<events, env, response>>

(***************************************************************************)
(* Requests and deployments.                                               *)
(***************************************************************************)
RequestIds == CustomerIds \cup {"nobody"}

NoMetadata == [k \in {} |-> ""]
NoEnv == [k \in {} |-> ""]
NoResponse == [op |-> "none", id |-> "", status |-> 0, body |-> NoBody]

EventCreate(event_type, ts, metadata) ==
    [event_type |-> event_type, ts |-> ts, metadata |-> metadata]

\* a row of the events table as seeded, before any request
Row(id, customer_id, event_type, ts, metadata) ==
    [ id |-> id, customer_id |-> customer_id, event_type |-> event_type,
      ts |-> ts, event_metadata |-> metadata ]

\* all five weights set, summing to 1.00
CustomEnv ==
    [ WEIGHT_LOGIN_FREQUENCY |-> "0.40", WEIGHT_FEATURE_ADOPTION |-> "0.15",
      WEIGHT_SUPPORT_TICKETS |-> "0.15", WEIGHT_PAYMENT_HEALTH |-> "0.15",
      WEIGHT_API_USAGE |-> "0.15" ]

Reads ==
    \/ get_customers
    \/ \E id \in RequestIds : get_customer_health(id)
    \/ \E id \in RequestIds : get_customer_events(id)

\* a deployment: the table as seeded, and the environment of the process
Deployed(seed, envs) ==
    /\ events = seed
    /\ env \in envs
    /\ now = NowStart
    /\ response = NoResponse

\* POST requests drawn from inputs, while the table holds fewer than limit rows
PostFrom(inputs, limit) ==
    /\ Len(events) < limit
    /\ \E id \in RequestIds, event_data \in inputs :
           create_customer_event(id, event_data)

(***************************************************************************)
(* Spec: the general workload on an empty table.  The environments are the *)
(* defaults and one weight raised (sum 1.30).                              *)
(***************************************************************************)
GeneralInputs ==
    { EventCreate("user_login", "", NoMetadata),
      EventCreate("user_login", "2024-09-05T10:00:00", NoMetadata),
      EventCreate("feature_onboarded", "2024-09-06T10:00:00",
                  [feature_name |-> "export", completion_percentage |-> "done"]),
      EventCreate("api_call", "yesterday", [endpoint |-> "/v1/items"]) }

GeneralEnvs == { NoEnv, [WEIGHT_LOGIN_FREQUENCY |-> "0.50"] }

Init == Deployed(<<>>, GeneralEnvs)
Post == PostFrom(GeneralInputs, MaxPosts)
Next == Post \/ Reads \/ Tick
Spec == Init /\ [][Next]_vars

(***************************************************************************)
(* SpecLogin: a customer who logged in on 1..8 September, and more logins. *)
(***************************************************************************)
LoginSeed ==
    [i \in 1..8 |-> Row(i, "c1", "user_login", At(30 + i, 8, 0), NoMetadata)]

LoginInputs ==
    { EventCreate("user_login", "2024-09-09T10:00:00", NoMetadata),
      EventCreate("user_login", "2024-09-10T10:00:00", NoMetadata),
      EventCreate("user_login", "2024-09-10T18:00:00", NoMetadata),
      EventCreate("user_login", "2024-08-31T23:59:00", NoMetadata),
      EventCreate("user_login", "2024-08-31T10:00:00", NoMetadata) }

InitLogin == Deployed(LoginSeed, {NoEnv})
PostLogin == PostFrom(LoginInputs, Len(LoginSeed) + MaxPosts)
NextLogin == PostLogin \/ Reads \/ Tick
SpecLogin == InitLogin /\ [][NextLogin]_vars

(***************************************************************************)
(* SpecFeature: feature usage and onboarding.                              *)
(***************************************************************************)
FeatureSeed ==
    << Row(1, "c1", "feature_used", At(35, 9, 0), [feature_name |-> "export"]) >>

FeatureInputs ==
    { EventCreate("feature_used", "2024-09-05T10:00:00", [feature_name |-> "export"]),
      EventCreate("feature_used", "2024-09-06T10:00:00", [feature_name |-> "reports"]),
      EventCreate("feature_used", "2024-09-07T10:00:00", NoMetadata),
      EventCreate("feature_onboarded", "2024-09-05T18:00:00",
                  [feature_name |-> "export", completion_percentage |-> "100"]) }

InitFeature == Deployed(FeatureSeed, {NoEnv})
PostFeature == PostFrom(FeatureInputs, Len(FeatureSeed) + MaxPosts)
NextFeature == PostFeature \/ Reads \/ Tick
SpecFeature == InitFeature /\ [][NextFeature]_vars

(***************************************************************************)
(* SpecSupport: one ticket created, then tickets created and resolved.     *)
(***************************************************************************)
SupportSeed ==
    << Row(1, "c1", "support_ticket_created", At(35, 9, 0),
           [ticket_id |-> "T1", priority |-> "low"]) >>

SupportInputs ==
    { EventCreate("support_ticket_created", "2024-09-05T10:00:00",
                  [ticket_id |-> "T2", priority |-> "high"]),
      EventCreate("support_ticket_resolved", "2024-09-06T10:00:00",
                  [ ticket_id |-> "T1", resolution_type |-> "solved",
                    satisfaction_score |-> "4" ]),
      EventCreate("support_ticket_resolved", "2024-09-07T10:00:00",
                  [ ticket_id |-> "T1", resolution_type |-> "escalated",
                    satisfaction_score |-> "2" ]),
      EventCreate("support_ticket_resolved", "2024-09-09T10:00:00",
                  [resolution_type |-> "solved"]) }

InitSupport == Deployed(SupportSeed, {NoEnv})
PostSupport == PostFrom(SupportInputs, Len(SupportSeed) + MaxPosts)
NextSupport == PostSupport \/ Reads \/ Tick
SpecSupport == InitSupport /\ [][NextSupport]_vars

(***************************************************************************)
(* SpecApi: API calls in the analysis period and in the period before it,  *)
(* and a login after it, on an empty table.                                *)
(***************************************************************************)
ApiInputs ==
    { EventCreate("api_call", "2024-09-05T10:00:00",
                  [ response_code |-> "200", endpoint |-> "/v1/items",
                    response_time_ms |-> "120" ]),
      EventCreate("api_call", "2024-09-06T10:00:00", [endpoint |-> "/v1/items"]),
      EventCreate("api_call", "2024-08-10T10:00:00",
                  [response_code |-> "200", endpoint |-> "/v1/items"]),
      EventCreate("user_login", NULL, NoMetadata) }

InitApi == Deployed(<<>>, {NoEnv, CustomEnv})
PostApi == PostFrom(ApiInputs, MaxPosts)
NextApi == PostApi \/ Reads \/ Tick
SpecApi == InitApi /\ [][NextApi]_vars

(***************************************************************************)
(* SpecBoundary: a customer who logged in on 1..17 September and used two  *)
(* features, under the default weights.                                    *)
(***************************************************************************)
BoundarySeed ==
    [i \in 1..17 |-> Row(i, "c1", "user_login", At(30 + i, 8, 0), NoMetadata)]
    \o << Row(18, "c1", "feature_used", At(35, 9, 0), [feature_name |-> "export"]),
          Row(19, "c1", "feature_used", At(36, 9, 0), [feature_name |-> "reports"]) >>

BoundaryInputs ==
    { EventCreate("feature_used", "2024-09-06T10:00:00", [feature_name |-> "alerts"]),
      EventCreate("api_call", "2024-09-05T10:00:00",
                  [response_code |-> "200", endpoint |-> "/v1/items"]),
      EventCreate("user_login", "2024-09-10T18:00:00", NoMetadata),
      EventCreate("user_login", NULL, NoMetadata) }

InitBoundary == Deployed(BoundarySeed, {NoEnv})
PostBoundary == PostFrom(BoundaryInputs, Len(BoundarySeed) + MaxPosts)
NextBoundary == PostBoundary \/ Reads \/ Tick
SpecBoundary == InitBoundary /\ [][NextBoundary]_vars

(***************************************************************************)
(* Properties.                                                             *)
(***************************************************************************)
Period == get_period_dates(30)

HealthReturned ==
    /\ response.op = "get_customer_health"
    /\ response.status = 200

\* the rows of a customer inside the analysis period, of any type
RowsInPeriod(db, customer_id) ==
    { i \in 1..Len(db) : /\ db[i].customer_id = customer_id
                         /\ db[i].ts >= Period.start
                         /\ db[i].ts <= Period.end }

\* the label the thresholds give a score in tenths
LabelAgrees(score, label) ==
    /\ score >= 800 => label = "Healthy"
    /\ (score >= 600 /\ score < 800) => label = "At Risk"
    /\ score < 600 => label = "Unhealthy"

\* C1 (as claimed; fails): the label returned agrees with the thresholds
\* applied to the one-decimal score returned with it: 80.0 and more is
\* Healthy, 60.0 up to 80.0 is At Risk, less is Unhealthy.
C1_LabelAgreesWithScore ==
    HealthReturned => LabelAgrees(response.body.score, response.body.label)

\* the sum of the five weights in hundredths, 0 when one does not parse
WeightSum ==
    IF \E f \in FactorNames : ~IsWeightText(weight_texts[f]) THEN 0
    ELSE WeightOfText(weight_texts.login_frequency)
         + WeightOfText(weight_texts.feature_adoption)
         + WeightOfText(weight_texts.support_tickets)
         + WeightOfText(weight_texts.payment_health)
         + WeightOfText(weight_texts.api_usage)

\* C2 (as claimed; fails): no composite score is computed and returned with
\* weights that do not sum to 1.0.
C2_InvalidWeightsRejected ==
    (response.op \in {"get_customer_health", "get_customers"} /\ response.status = 200)
        => WeightSum = 100

\* C3 (as claimed; fails): with 10 distinct login days in the period and no
\* other events, the login sub-score is 33.3 and total_days_in_period is 30.
C3_TenLoginDays ==
    ( /\ HealthReturned
      /\ response.body.breakdown.login_frequency.days_logged_in = 10
      /\ \A i \in 1..Len(events) :
            events[i].customer_id = response.id => events[i].event_type = "user_login" )
        => /\ response.body.breakdown.login_frequency.score = 333
           /\ response.body.breakdown.login_frequency.total_days_in_period = 30

\* the feature adoption calculator's result over the analysis period
FeatureResult(db, customer_id) ==
    calc_feature_adoption_score(db, customer_id, Period.start, Period.end)

\* the orders of n rows
Orders(n) == { p \in [1..n -> 1..n] : \A i, j \in 1..n : p[i] = p[j] => i = j }

\* the table with its rows in the order p
Reordered(db, p) == [i \in 1..Len(db) |-> db[p[i]]]

\* the table after row i's request is delivered again
Redelivered(db, i) == Append(db, [db[i] EXCEPT !.id = Len(db) + 1])

\* row i is a feature_used event naming a feature
NamesUsedFeature(db, i) ==
    /\ db[i].event_type = "feature_used"
    /\ Field(db[i], "feature_name") # NULL

\* the score before is the score of every reordering and every redelivery
ScoreUnchanged(c, before) ==
    /\ \A p \in Orders(Len(events)) :
          FeatureResult(Reordered(events, p), c).score = before.score
    /\ \A i \in 1..Len(events) :
          NamesUsedFeature(events, i) =>
              FeatureResult(Redelivered(events, i), c).score = before.score

\* the result after row i is delivered again, against the result before
RedeliveryCounted(c, i, before, after) ==
    /\ after.features_onboarded = before.features_onboarded
    /\ after.features_used = before.features_used
    /\ after.onboarding_score = before.onboarding_score
    /\ after.diversity_score = before.diversity_score
    /\ after.total_feature_usage =
           before.total_feature_usage
           + (IF events[i].customer_id = c /\ i \in RowsInPeriod(events, c)
              THEN 1 ELSE 0)
    /\ after.score >= before.score

\* the result before is the result of every reordering, and every
\* redelivery is counted
ReorderInvariant(c, before) ==
    /\ \A p \in Orders(Len(events)) :
          FeatureResult(Reordered(events, p), c) = before
    /\ \A i \in 1..Len(events) :
          NamesUsedFeature(events, i) =>
              RedeliveryCounted(c, i, before, FeatureResult(Redelivered(events, i), c))

\* C4 (as claimed; fails): the feature adoption score is unchanged when the
\* events are reordered and when a feature_used event for an already-used
\* feature name is delivered again.
C4_ScoreInvariantUnderRedelivery ==
    \A c \in CustomerIds : ScoreUnchanged(c, FeatureResult(events, c))

\* C4 (amended): the feature adoption result is unchanged when the events are
\* reordered; a feature_used event delivered again leaves features_onboarded,
\* features_used and the onboarding and diversity components unchanged, is
\* counted in total_feature_usage, and never lowers the score.
C4_ReorderInvariantRedeliveryCounted ==
    \A c \in CustomerIds : ReorderInvariant(c, FeatureResult(events, c))

\* C4 witness: the table holds a feature_used event twice (same customer,
\* feature name and time), and the health returned for that customer counts
\* both as usage and one feature as used.
C4_Witness ==
    /\ HealthReturned
    /\ \E i, j \in RowsInPeriod(events, response.id) :
          /\ i < j
          /\ NamesUsedFeature(events, i)
          /\ events[j] = [events[i] EXCEPT !.id = j]
    /\ response.body.breakdown.feature_adoption.features_used = 1
    /\ response.body.breakdown.feature_adoption.total_feature_usage >= 2

\* the documented defaults of a customer without events: the five scores in
\* tenths, and the composite their weighted sum
DefaultsReturned(body) ==
    /\ body.breakdown.login_frequency.score = 0
    /\ body.breakdown.feature_adoption.score = 0
    /\ body.breakdown.support_tickets.score = 990
    /\ body.breakdown.payment_health.score = 1000
    /\ body.breakdown.api_usage.score = 235
    /\ body.score =
           RoundDiv(990 * WeightOfText(weight_texts.support_tickets)
                    + 1000 * WeightOfText(weight_texts.payment_health)
                    + 235 * WeightOfText(weight_texts.api_usage), 100)

\* the documented defaults of the components the scores are built from
ComponentDefaults ==
    /\ penalty_score(0, 5) = 100 * Fx
    /\ resolution_rate_score_of(0, 0) = 100 * Fx
    /\ escalation_penalty_score(0) = 100 * Fx
    /\ satisfaction_score_of(<<>>) = 80 * Fx
    /\ support_score_of(0, 0, 0, 0, 0, <<>>) = 99 * 100 * Fx
    /\ volume_score_of(0) = 0
    /\ growth_score_of(0, 0) = 50 * Fx
    /\ reliability_of(<<>>) = 90 * Fx

\* C5 (as claimed; fails): for a customer with no events inside the analysis
\* period every factor returns its documented default, and the composite is
\* the weighted sum of the defaults.
C5_NoEventsGiveDefaults ==
    (HealthReturned /\ RowsInPeriod(events, response.id) = {})
        => (DefaultsReturned(response.body) /\ ComponentDefaults)

\* C5 (amended): the same for a customer with no events inside the analysis
\* period and no api_call events in the period before it.
C5_NoEventsNoPriorCallsGiveDefaults ==
    ( /\ HealthReturned
      /\ RowsInPeriod(events, response.id) = {}
      /\ previous_period_calls_of(events, response.id, Period.start, Period.end) = 0 )
        => (DefaultsReturned(response.body) /\ ComponentDefaults)

\* C5 witness: a customer whose only events lie after the period is returned
\* the defaults.
C5_Witness ==
    /\ HealthReturned
    /\ \E i \in 1..Len(events) : events[i].customer_id = response.id
    /\ RowsInPeriod(events, response.id) = {}
    /\ previous_period_calls_of(events, response.id, Period.start, Period.end) = 0
    /\ DefaultsReturned(response.body)

\* a score in tenths lies between 0.0 and 100.0
InRange(score) == score >= 0 /\ score <= 1000

\* C6 (as claimed; fails): each of the five sub-scores returned lies in the
\* closed range 0 to 100, whatever events the customer has.
C6_SubScoresInRange ==
    HealthReturned =>
        /\ InRange(response.body.breakdown.login_frequency.score)
        /\ InRange(response.body.breakdown.feature_adoption.score)
        /\ InRange(response.body.breakdown.support_tickets.score)
        /\ InRange(response.body.breakdown.payment_health.score)
        /\ InRange(response.body.breakdown.api_usage.score)

\* the factors whose calculator fails on the table for the customer
FailedFactors(db, customer_id) ==
    { f \in FactorNames : factor_data(db, customer_id)[f].failed }

\* C7 (as claimed; fails): a health request for a known customer is answered
\* with a score even when a factor calculator fails, and each failed factor
\* is marked degraded in the breakdown; the customer list is answered too.
C7_FailedFactorIsolated ==
    /\ response.op = "get_customers" => response.status = 200
    /\ (response.op = "get_customer_health" /\ response.id \in CustomerIds) =>
          /\ response.status = 200
          /\ \A f \in FailedFactors(events, response.id) :
                /\ "degraded" \in DOMAIN response.body.breakdown[f]
                /\ response.body.breakdown[f].degraded = TRUE

\* the health the service computes now for the customer of the last response
HealthAgain == calculate_customer_health_score(events, CustomerById(response.id))

\* C8 (as claimed; fails): the health returned for a customer and the health
\* computed again for that customer, with the table and the weights unchanged,
\* are identical in every field: score, label, breakdown and last_updated.
C8_RepeatIdenticalEveryField ==
    HealthReturned =>
        /\ HealthAgain.score = response.body.score
        /\ HealthAgain.label = response.body.label
        /\ HealthAgain.breakdown = response.body.breakdown
        /\ HealthAgain.last_updated = response.body.last_updated

\* C8 (amended): the two are identical in score, label and breakdown;
\* last_updated is the time of each invocation.
C8_RepeatIdenticalScoreLabelBreakdown ==
    HealthReturned =>
        /\ HealthAgain.score = response.body.score
        /\ HealthAgain.label = response.body.label
        /\ HealthAgain.breakdown = response.body.breakdown
        /\ HealthAgain.last_updated = now
        /\ response.body.last_updated <= now

\* C8 witness: a health was returned for a customer with events in the
\* period, and the clock has advanced since, so that the health computed
\* again carries a later last_updated.
C8_Witness ==
    /\ HealthReturned
    /\ RowsInPeriod(events, response.id) # {}
    /\ response.body.last_updated < now
    /\ HealthAgain.last_updated > response.body.last_updated
    /\ HealthAgain.score = response.body.score

\* the api_call rows of a customer in the period
CallsInPeriod(db, customer_id) ==
    Rows(db, customer_id, {"api_call"}, Period.start, Period.end)

\* those of them that carry a response_code
CodedCalls(db, customer_id) ==
    { i \in CallsInPeriod(db, customer_id) : Field(db[i], "response_code") # NULL }

\* C9 (as claimed; fails): an api_call without response_code never makes the
\* calculation fail and is left out of the success rate, out of its
\* numerator and out of its denominator: the success rate returned is the
\* rate over the calls that carry a response_code.
C9_MissingFieldExcluded ==
    (response.op = "get_customer_health" /\ response.id \in CustomerIds) =>
        /\ response.status = 200
        /\ response.body.breakdown.api_usage.success_rate =
               Round1(reliability_of(
                   success_rate_of(events, CodedCalls(events, response.id))))

\* the support ticket result over the analysis period
SupportResult(db, customer_id) ==
    calc_support_ticket_score(db, customer_id, Period.start, Period.end)

\* row i is a resolved ticket of the customer in the period, not escalated
ResolvedNotEscalated(db, customer_id, i) ==
    /\ i \in RowsInPeriod(db, customer_id)
    /\ db[i].event_type = "support_ticket_resolved"
    /\ Field(db[i], "resolution_type") # "escalated"

\* the table with row i's resolution escalated, all else equal
Escalated(db, i) ==
    [db EXCEPT ![i].event_metadata =
        [k \in DOMAIN db[i].event_metadata \cup {"resolution_type"} |->
            IF k = "resolution_type" THEN "escalated" ELSE db[i].event_metadata[k]]]

\* the result r differs from the result q in one more escalation only
OneMoreEscalation(q, r) ==
    /\ r.tickets_escalated = q.tickets_escalated + 1
    /\ r.tickets_created = q.tickets_created
    /\ r.tickets_resolved = q.tickets_resolved
    /\ r.high_priority_tickets = q.high_priority_tickets
    /\ r.currently_open_tickets = q.currently_open_tickets
    /\ r.avg_satisfaction = q.avg_satisfaction

\* the range of escalation counts the score is compared over
MaxEscalations == 6

\* the score the support formula gives the result r's aggregates with n
\* escalations, in tenths
SupportScoreWith(r, n) ==
    RoundDiv(support_score_of(r.tickets_created, r.tickets_resolved, n,
                 r.high_priority_tickets, r.currently_open_tickets,
                 IF r.avg_satisfaction = <<>> THEN <<>>
                 ELSE << OfTenths(r.avg_satisfaction[1]) >>),
             100 * (Fx \div 10))

\* C10: with tickets created, resolved, high-priority and open and the average
\* satisfaction held fixed, the support ticket score never increases when the
\* number of escalated tickets increases.
C10_EscalationsNeverRaiseScore ==
    \A c \in CustomerIds :
        /\ \A i \in 1..Len(events) :
              ResolvedNotEscalated(events, c, i) =>
                  /\ OneMoreEscalation(SupportResult(events, c),
                                       SupportResult(Escalated(events, i), c))
                  /\ SupportResult(Escalated(events, i), c).score
                        <= SupportResult(events, c).score
        /\ \A n \in 0..MaxEscalations :
              SupportScoreWith(SupportResult(events, c), n + 1)
                  <= SupportScoreWith(SupportResult(events, c), n)

\* C10 witness: the health returned reports a resolved ticket that was not
\* escalated, and escalating it gives a strictly lower support score.
C10_Witness ==
    /\ HealthReturned
    /\ \E i \in 1..Len(events) :
          /\ ResolvedNotEscalated(events, response.id, i)
          /\ OneMoreEscalation(SupportResult(events, response.id),
                               SupportResult(Escalated(events, i), response.id))
          /\ SupportResult(Escalated(events, i), response.id).score
                < response.body.breakdown.support_tickets.score
    /\ response.body.breakdown.support_tickets.tickets_resolved >= 1

(***************************************************************************)
(* SpecEvents: event ingestion and listing.  Each customer has one event,  *)
(* and events arrive with no timestamp, an empty one, well-formed ones     *)
(* older and newer than the stored ones, and one that does not parse.      *)
(***************************************************************************)
EventsSeed ==
    << Row(1, "c2", "user_login", At(36, 9, 0), NoMetadata),
       Row(2, "c1", "user_login", At(35, 18, 0), NoMetadata) >>

EventInputs ==
    { EventCreate("user_login", NULL, NoMetadata),
      EventCreate("user_login", "", NoMetadata),
      EventCreate("user_login", "2024-09-07T10:00:00", NoMetadata),
      EventCreate("user_login", "2024-08-10T10:00:00", NoMetadata),
      EventCreate("user_login", "yesterday", NoMetadata) }

InitEvents == Deployed(EventsSeed, {NoEnv})
PostEvents == PostFrom(EventInputs, Len(EventsSeed) + MaxPosts)
NextEvents == PostEvents \/ Reads \/ Tick
SpecEvents == InitEvents /\ [][NextEvents]_vars

\* a timestamp was sent and is not ISO-8601 text
Malformed(ts) == ts # NULL /\ ~IsIsoText(ts)

\* C11 (as claimed; fails): a POST for an unknown customer id is answered 404,
\* a POST with a malformed (non-ISO-8601) timestamp is answered 400, and in
\* both cases the events table is left exactly as it was.
C11_RejectedPostsLeaveStore ==
    [][\A id \in RequestIds, event_data \in EventInputs :
          create_customer_event(id, event_data) =>
              /\ id \notin CustomerIds =>
                    (response'.status = 404 /\ events' = events)
              /\ (id \in CustomerIds /\ Malformed(event_data.ts)) =>
                    (response'.status = 400 /\ events' = events)]_vars

\* C12: no request modifies or removes an event of the table: every step
\* leaves the table as it was, or is a successful POST that appends exactly
\* one event, owned by the addressed customer, after the events already
\* there; and a successful POST always appends.
C12_EventsAppendOnly ==
    [][/\ \/ events' = events
          \/ /\ response'.op = "create_customer_event"
             /\ response'.status = 200
             /\ Len(events') = Len(events) + 1
             /\ SubSeq(events', 1, Len(events)) = events
             /\ events'[Len(events')].customer_id = response'.id
             /\ events'[Len(events')] = response'.body
       /\ \A id \in RequestIds, event_data \in EventInputs :
             (create_customer_event(id, event_data) /\ response'.status = 200)
                 => Len(events') = Len(events) + 1]_vars

\* C12 witness: a POST for c1 was answered with the event it appended, after
\* reads and posts, and the seeded events of both customers are still the
\* first rows of the table.
C12_Witness ==
    /\ response.op = "create_customer_event"
    /\ response.status = 200
    /\ response.id = "c1"
    /\ Len(events) = Len(EventsSeed) + 2
    /\ events[Len(events)] = response.body
    /\ SubSeq(events, 1, Len(EventsSeed)) = EventsSeed

\* an event listing was returned for a known customer
EventsReturned ==
    /\ response.op = "get_customer_events"
    /\ response.status = 200

\* the rows of the table owned by the customer
OwnedBy(db, customer_id) ==
    { db[i] : i \in { k \in 1..Len(db) : db[k].customer_id = customer_id } }

\* the list runs from the newest timestamp to the oldest
NewestFirst(event_list) ==
    \A i, j \in 1..Len(event_list) : i < j => event_list[i].ts >= event_list[j].ts

\* C13: the listing returned for a known customer holds exactly the events
\* owned by that customer, each once, total_events is their number, and they
\* run from the newest timestamp to the oldest whatever order they were
\* posted in.
C13_ListingExactNewestFirst ==
    EventsReturned =>
        /\ { response.body.events[i] : i \in 1..Len(response.body.events) }
               = OwnedBy(events, response.id)
        /\ Len(response.body.events) = Cardinality(OwnedBy(events, response.id))
        /\ response.body.total_events = Cardinality(OwnedBy(events, response.id))
        /\ response.body.customer_id = response.id
        /\ NewestFirst(response.body.events)

\* C13 witness: c1's listing holds three events with distinct timestamps,
\* the first returned was posted after the last returned was stored and
\* the second returned was posted last of all, while the table also holds
\* an event of c2.
C13_Witness ==
    /\ EventsReturned
    /\ response.id = "c1"
    /\ Len(response.body.events) = 3
    /\ response.body.events[1].ts > response.body.events[2].ts
    /\ response.body.events[2].ts > response.body.events[3].ts
    /\ response.body.events[2].id > response.body.events[1].id
    /\ response.body.events[1].id > response.body.events[3].id
    /\ \E i \in 1..Len(events) : events[i].customer_id = "c2"

(***************************************************************************)
(* SpecPayment: one invoice of c1 in the period, then payments received    *)
(* for it (on time, late, and one without days_early_late), a failed       *)
(* payment, and a second invoice.                                          *)
(***************************************************************************)
PaymentSeed ==
    << Row(1, "c1", "invoice_generated", At(35, 9, 0),
           [invoice_id |-> "INV1", amount_usd |-> "100", due_date |-> "2024-09-20"]) >>

PaymentInputs ==
    { EventCreate("payment_received", "2024-09-10T10:00:00",
                  [ invoice_id |-> "INV1", payment_date |-> "2024-09-10",
                    days_early_late |-> "-10" ]),
      EventCreate("payment_received", "2024-09-10T18:00:00",
                  [invoice_id |-> "INV1", payment_date |-> "2024-09-20"]),
      EventCreate("payment_received", NULL,
                  [ invoice_id |-> "INV1", payment_date |-> "2024-10-05",
                    days_early_late |-> "15" ]),
      EventCreate("payment_failed", "2024-09-09T10:00:00", [invoice_id |-> "INV1"]),
      EventCreate("invoice_generated", "2024-09-06T10:00:00",
                  [invoice_id |-> "INV2", amount_usd |-> "50", due_date |-> "2024-09-20"]) }

InitPayment == Deployed(PaymentSeed, {NoEnv})
PostPayment == PostFrom(PaymentInputs, Len(PaymentSeed) + MaxPosts)
NextPayment == PostPayment \/ Reads \/ Tick
SpecPayment == InitPayment /\ [][NextPayment]_vars

\* the four class counts of the payment query, summed
BucketTotal(db, customer_id) ==
    LET pm == payment_metrics(db, customer_id, Period.start, Period.end)
    IN  status_count(db, pm, "unpaid") + status_count(db, pm, "on_time_or_early")
        + status_count(db, pm, "late_acceptable") + status_count(db, pm, "late_concerning")

\* C14 (as claimed; fails): unpaid + on_time + late_acceptable +
\* late_concerning equals total_invoices for every combination of invoice and
\* payment events, a payment_received without days_early_late included.
C14_BucketsSumToTotal ==
    HealthReturned =>
        BucketTotal(events, response.id)
            = response.body.breakdown.payment_health.total_invoices

\* the invoice_generated rows of the customer in the analysis period
InvoicesInPeriod(db, customer_id) ==
    Rows(db, customer_id, {"invoice_generated"}, Period.start, Period.end)

\* C16 (as claimed; fails): total_invoices is the number of invoice_generated
\* events of the customer in the analysis period, and no invoice is counted
\* more than once in the class totals, however many payment_received and
\* payment_failed events carry its invoice id.
C16_InvoicesCountedOnce ==
    HealthReturned =>
        /\ response.body.breakdown.payment_health.total_invoices
               = Cardinality(InvoicesInPeriod(events, response.id))
        /\ BucketTotal(events, response.id)
               <= Cardinality(InvoicesInPeriod(events, response.id))

(***************************************************************************)
(* SpecReliability: API calls that succeed and that fail, and rate-limit   *)
(* hits, on an empty table.                                                *)
(***************************************************************************)
ReliabilityInputs ==
    { EventCreate("api_call", "2024-09-07T10:00:00",
                  [response_code |-> "500", endpoint |-> "/v1/orders"]),
      EventCreate("api_call", "2024-09-05T10:00:00",
                  [response_code |-> "200", endpoint |-> "/v1/items"]),
      EventCreate("api_rate_limit_exceeded", "2024-09-05T18:00:00", NoMetadata) }

InitReliability == Deployed(<<>>, {NoEnv})
PostReliability == PostFrom(ReliabilityInputs, MaxPosts)
NextReliability == PostReliability \/ Reads \/ Tick
SpecReliability == InitReliability /\ [][NextReliability]_vars

\* the api_call rows of the period whose response code is 200..299
SuccessfulCalls(db, customer_id) ==
    { i \in CallsInPeriod(db, customer_id) :
        /\ IsIntText(Field(db[i], "response_code"))
        /\ IntOfText(Field(db[i], "response_code")) >= 200
        /\ IntOfText(Field(db[i], "response_code")) <= 299 }

\* C15 (as claimed; fails): the reliability (success rate) returned is the
\* percentage of the period's api_call events with a response code 200..299
\* whenever the period has an api_call, 0 when every call failed, and the
\* default 90 only when the period has no api_call.
C15_ReliabilityIsSuccessRate ==
    HealthReturned =>
        response.body.breakdown.api_usage.success_rate =
            IF CallsInPeriod(events, response.id) = {} THEN 900
            ELSE RoundDiv(Cardinality(SuccessfulCalls(events, response.id)) * 1000,
                          Cardinality(CallsInPeriod(events, response.id)))

====
